---- MODULE Spec2Model ----
(***************************************************************************)
(* A model of download_lyrics.py: the batch run of main() over a music     *)
(* folder, and the functions of the module called on their own             *)
(* (get_mp3_metadata, search_lrclib, get_lrc_from_result, save_lrc_file).  *)
(*                                                                         *)
(* Python str values (file name stems, tag texts, lyrics, file contents)   *)
(* are sequences of one-character strings.                                 *)
(***************************************************************************)
EXTENDS Integers, Sequences, FiniteSets, TLC

VARIABLES
    \* ---- the batch run of main() ----
    pc,             \* where main() is: "idle", "start", "loop", "summary", "done", "exited", "aborted"
    skip_existing,  \* line 257
    debug,          \* line 258
    folder,         \* the music folder: a sequence of track files
    lrc,            \* sibling lyric file of each file of the folder: NoFile or File(text)
    lrc0,           \* history: lrc as it was when the current run began
    remote,         \* what the remote service answers to a search
    mp3_files,      \* line 268: indices into folder, in the order discovered
    i,              \* the loop index of line 280 (1-based; the file being handled)
    success_count, skip_count, fail_count,
    printed,        \* the summary printed by lines 290-295, or NoSummary
    log,            \* history: one record per file whose loop iteration completed
    run,            \* which run over the folder this is (1 = first)
    first_run,      \* history: log, lrc and final pc of the first run, once it is over
    \* ---- a function of the module called directly ----
    call,           \* the function called and its arguments
    step,           \* position inside the call
    ret,            \* its return value, once step = "returned"
    \* ---- effects on the outside world, whoever causes them ----
    clock,          \* time slept so far, in tenths of a time unit
    requests,       \* one record per HTTP request issued: the clock when it was sent
    writes          \* number of open(..., 'w') calls made

mainVars == <<pc, skip_existing, debug, folder, lrc, lrc0, remote, mp3_files, i,
              success_count, skip_count, fail_count, printed, log, run, first_run>>
callVars == <<call, step, ret>>
worldVars == <<clock, requests, writes>>
vars == <<mainVars, callVars, worldVars>>

(***************************************************************************)
(* Bounds                                                                  *)
(***************************************************************************)
MaxStem == 5        \* longest file name stem enumerated for get_mp3_metadata
MaxFiles == 2       \* most track files in the music folder
MaxRuns == 2        \* runs of main() over the same folder
MaxResults == 2     \* longest JSON array the remote service answers with

(***************************************************************************)
(* Python values                                                           *)
(***************************************************************************)
\* Optional text: Python None, or a str given as a sequence of characters.
None == [isNone |-> TRUE, s |-> <<>>]
Str(s) == [isNone |-> FALSE, s |-> s]

\* Python truthiness of an optional str: None and "" are falsy.
Truthy(v) == ~v.isNone /\ v.s # <<>>

Alphabet == {"a", " ", "-"}
SEP == <<" ", "-", " ">>                       \* the ' - ' of lines 82-83
Unknown == <<"U", "n", "k", "n", "o", "w", "n">>   \* line 90

\* All character sequences of length lo..hi over Alphabet.
TextsOfLen(n) == [1..n -> Alphabet]
Texts(lo, hi) == UNION {TextsOfLen(n) : n \in lo..hi}

\* str.find(sub) from position p (1-based); 0 when sub does not occur.
RECURSIVE Find(_, _, _)
Find(s, sub, p) ==
    IF p + Len(sub) - 1 > Len(s) THEN 0
    ELSE IF SubSeq(s, p, p + Len(sub) - 1) = sub THEN p
    ELSE Find(s, sub, p + 1)

\* sub in s
Contains(s, sub) == Find(s, sub, 1) # 0

\* The split of s at its LAST occurrence of sep (what str.rsplit(sep, 1) does).
RECURSIVE FindLast(_, _, _)
FindLast(s, sub, p) ==
    IF p < 1 THEN 0
    ELSE IF SubSeq(s, p, p + Len(sub) - 1) = sub THEN p
    ELSE FindLast(s, sub, p - 1)
Split1_last(s, sep) ==
    LET p == FindLast(s, sep, Len(s) - Len(sep) + 1)
    IN  IF p = 0 THEN <<s>>
        ELSE <<SubSeq(s, 1, p - 1), SubSeq(s, p + Len(sep), Len(s))>>

\* s.split(sep, 1): at most one split, at the first occurrence of sep.
Split1(s, sep) ==
    LET p == Find(s, sep, 1)
    IN  IF p = 0 THEN <<s>>
        ELSE <<SubSeq(s, 1, p - 1), SubSeq(s, p + Len(sep), Len(s))>>

\* s.lstrip(), s.rstrip(), s.strip(): the only whitespace of Alphabet is " ".
RECURSIVE LStrip(_)
LStrip(s) == IF s # <<>> /\ Head(s) = " " THEN LStrip(Tail(s)) ELSE s
RECURSIVE RStrip(_)
RStrip(s) == IF s # <<>> /\ s[Len(s)] = " " THEN RStrip(SubSeq(s, 1, Len(s) - 1)) ELSE s
Strip(s) == RStrip(LStrip(s))

(***************************************************************************)
(* Track files and get_mp3_metadata (lines 59-95)                          *)
(***************************************************************************)
\* A file of the folder: whether its name ends in .mp3 (any case), whether
\* mutagen can open it, the three ID3 frames the code reads (None = frame
\* absent, Str(t) = str(frame)), and the stem of its name.
TagTexts == {<<>>, <<"t">>}
TagValues == {None} \cup {Str(t) : t \in TagTexts}
Tags == [TPE1 : TagValues, TPE2 : TagValues, TIT2 : TagValues]
NoTags == [TPE1 |-> None, TPE2 |-> None, TIT2 |-> None]
Track(readable, tags, stem) ==
    [mp3 |-> TRUE, readable |-> readable, tags |-> tags, stem |-> stem]

\* Lines 64-76: the artist and title read from the tags.
TagArtist(tags) ==
    IF ~tags.TPE1.isNone THEN tags.TPE1
    ELSE IF ~tags.TPE2.isNone THEN tags.TPE2
    ELSE None
TagTitle(tags) == tags.TIT2

\* Lines 78-92: the fallback to the file name.
FilenameFallback(artist, title, filename) ==
    IF ~Truthy(artist) \/ ~Truthy(title)
    THEN IF Contains(filename, SEP)
         THEN LET parts == Split1(filename, SEP)
              IN  <<IF ~Truthy(artist) THEN Str(Strip(parts[1])) ELSE artist,
                    IF ~Truthy(title) THEN Str(Strip(parts[2])) ELSE title>>
         ELSE <<Str(Unknown), Str(filename)>>
    ELSE <<artist, title>>

\* get_mp3_metadata(file_path): <<artist, title>>; <<None, None>> when
\* MP3(file_path) raises (lines 93-95).
get_mp3_metadata(f) ==
    IF ~f.readable THEN <<None, None>>
    ELSE FilenameFallback(TagArtist(f.tags), TagTitle(f.tags), f.stem)

\* Line 215 of process_mp3_file: the identity is rejected.
MetadataRejected(identity) == ~Truthy(identity[1]) \/ ~Truthy(identity[2])

(***************************************************************************)
(* JSON values as Python sees them after response.json()                   *)
(***************************************************************************)
JNull == [kind |-> "null"]                  \* JSON null, Python None
JNum(n) == [kind |-> "number", n |-> n]
JStr(s) == [kind |-> "string", s |-> s]     \* s: a sequence of characters
Absent == [kind |-> "absent"]               \* a key the object does not have
JObj(synced, plain, other) ==
    [kind |-> "object", syncedLyrics |-> synced, plainLyrics |-> plain, other |-> other]
JArr(items) == [kind |-> "array", items |-> items]
Malformed == [kind |-> "malformed"]         \* a body response.json() cannot parse

\* Two lyric texts: a synced one and a plain one.
SYNCED == <<"[", "0", "1", "]", "H", "i">>
PLAIN == <<"H", "i">>
LyricTexts == {SYNCED, PLAIN}

\* What a lyric field of a candidate can hold: no key, null, "" or a text.
FieldValues == {Absent, JNull, JStr(<<>>)} \cup {JStr(t) : t \in LyricTexts}
Candidates == {JObj(sy, pl, TRUE) : sy \in FieldValues, pl \in FieldValues}

\* len(v) is defined; the value of bool(v); v has a .get method.
HasLen(v) == v.kind \in {"string", "object", "array"}
JLen(v) ==
    IF v.kind = "string" THEN Len(v.s)
    ELSE IF v.kind = "array" THEN Len(v.items)
    ELSE IF v.syncedLyrics # Absent /\ v.plainLyrics # Absent THEN (IF v.other THEN 3 ELSE 2)
    ELSE IF v.syncedLyrics # Absent \/ v.plainLyrics # Absent THEN (IF v.other THEN 2 ELSE 1)
    ELSE (IF v.other THEN 1 ELSE 0)
JTruthy(v) ==
    IF v.kind = "null" THEN FALSE
    ELSE IF v.kind = "number" THEN v.n # 0
    ELSE JLen(v) > 0
HasGet(v) == v.kind = "object"

\* d.get(key) of an object: None when the key is missing.
Get(d, key) ==
    LET f == IF key = "syncedLyrics" THEN d.syncedLyrics ELSE d.plainLyrics
    IN  IF f = Absent THEN JNull ELSE f

\* v[0] and v[:3] of a str or a list, as a sequence of Python values.
Elements(v) ==
    IF v.kind = "string" THEN [k \in 1..Len(v.s) |-> JStr(<<v.s[k]>>)]
    ELSE v.items
First3(v) == SubSeq(Elements(v), 1, IF JLen(v) < 3 THEN JLen(v) ELSE 3)

(***************************************************************************)
(* get_lrc_from_result (lines 147-177)                                     *)
(***************************************************************************)
\* The mutation: plain lyrics looked at before synced lyrics.
get_lrc_from_result_plain_first(result, dbg) ==
    IF ~JTruthy(result) THEN JNull
    ELSE IF ~HasGet(result) THEN JNull
    ELSE IF JTruthy(Get(result, "plainLyrics")) THEN Get(result, "plainLyrics")
    ELSE IF JTruthy(Get(result, "syncedLyrics")) THEN Get(result, "syncedLyrics")
    ELSE JNull

\* get_lrc_from_result(result, debug): the lyric text, or None.  dbg only
\* adds prints.  A truthy result without .get raises AttributeError at line
\* 154, which lines 172-177 turn into None.
get_lrc_from_result(result, dbg) ==
    IF ~JTruthy(result) THEN JNull
    ELSE IF ~HasGet(result) THEN JNull
    ELSE IF JTruthy(Get(result, "syncedLyrics")) THEN Get(result, "syncedLyrics")
    ELSE IF JTruthy(Get(result, "plainLyrics")) THEN Get(result, "plainLyrics")
    ELSE JNull

(***************************************************************************)
(* search_lrclib (lines 98-144)                                            *)
(***************************************************************************)
DELAY == 5          \* time.sleep(0.5), in tenths of a time unit (line 114)
HTTP_OK == 200      \* line 121

\* Lines 128-132 (debug only) raise: len() of None or a number, a slice of a
\* dict, or .get of an element that is not a dict.
DebugPrintsRaise(results) ==
    \/ ~HasLen(results)
    \/ /\ JTruthy(results)
       /\ \/ results.kind = "object"
          \/ \E k \in 1..Len(First3(results)) : ~HasGet(First3(results)[k])

\* Lines 135-138: results[0] if results is truthy.  len() of a number and
\* [0] of a dict raise, and lines 139-144 return None.
FirstResult(results) ==
    IF ~JTruthy(results) THEN JNull
    ELSE IF ~HasLen(results) THEN JNull
    ELSE IF results.kind = "object" THEN JNull
    ELSE Elements(results)[1]

\* Lines 118-138: what search_lrclib returns for a response that arrived.
HandleResponse(response, dbg) ==
    IF response.status # HTTP_OK THEN JNull
    ELSE IF response.body = Malformed THEN JNull
    ELSE IF dbg /\ DebugPrintsRaise(response.body) THEN JNull
    ELSE FirstResult(response.body)

(***************************************************************************)
(* Values that stay put while another part of the module runs              *)
(***************************************************************************)
NoFile == [exists |-> FALSE, text |-> <<>>]
File(text) == [exists |-> TRUE, text |-> text]
NoSummary == [printed |-> FALSE, success |-> 0, skipped |-> 0, failed |-> 0, total |-> 0]
NoCall == [fn |-> "none"]
NoRet == [kind |-> "pending"]
NoFirstRun == [over |-> FALSE, log |-> <<>>, lrc0 |-> <<>>, lrc |-> <<>>, pc |-> "idle"]
NoRemote == [error |-> FALSE, status |-> 0, body |-> Malformed]

MainIdleButRemote ==
    /\ pc = "idle" /\ skip_existing = TRUE /\ debug = FALSE
    /\ folder = <<>> /\ lrc = <<>> /\ lrc0 = <<>>
    /\ mp3_files = <<>> /\ i = 0
    /\ success_count = 0 /\ skip_count = 0 /\ fail_count = 0
    /\ printed = NoSummary /\ log = <<>> /\ run = 0
    /\ first_run = NoFirstRun
MainIdle == MainIdleButRemote /\ remote = NoRemote

WorldInit == clock = 0 /\ requests = <<>> /\ writes = 0

(***************************************************************************)
(* get_mp3_metadata called on every track file up to the bounds            *)
(***************************************************************************)
Stems == Texts(1, MaxStem)      \* Path(...).stem of a file name is never empty
TrackFiles == {Track(r, t, s) : r \in BOOLEAN, t \in Tags, s \in Stems}

InitMeta ==
    /\ MainIdle /\ WorldInit
    /\ \E f \in TrackFiles : call = [fn |-> "get_mp3_metadata", file_path |-> f]
    /\ step = "called"
    /\ ret = NoRet

CallGetMp3Metadata ==
    /\ call.fn = "get_mp3_metadata" /\ step = "called"
    /\ ret' = [kind |-> "identity", value |-> get_mp3_metadata(call.file_path)]
    /\ step' = "returned"
    /\ UNCHANGED <<call, mainVars, worldVars>>

NextMeta == CallGetMp3Metadata
SpecMeta == InitMeta /\ [][NextMeta]_vars

(***************************************************************************)
(* Claims about get_mp3_metadata, checked under SpecMeta                   *)
(***************************************************************************)
MetaReturned == call.fn = "get_mp3_metadata" /\ step = "returned"

\* SEP occurs in s at position k; and it is the first occurrence.
IsSepAt(s, k) == k >= 1 /\ k + 2 <= Len(s) /\ SubSeq(s, k, k + 2) = SEP
FirstSepAt(s, k) == IsSepAt(s, k) /\ \A j \in 1..(k - 1) : ~IsSepAt(s, j)

\* x is s without its leading and trailing blanks.
AllBlank(s) == \A n \in 1..Len(s) : s[n] = " "
IsTrimOf(x, s) ==
    /\ x = <<>> \/ (x[1] # " " /\ x[Len(x)] # " ")
    /\ \E a \in 0..Len(s) :
          /\ a + Len(x) <= Len(s)
          /\ AllBlank(SubSeq(s, 1, a))
          /\ SubSeq(s, a + 1, a + Len(x)) = x
          /\ AllBlank(SubSeq(s, a + Len(x) + 1, Len(s)))

\* C5: extraction from a file mutagen can open always resolves the artist to
\* a non-empty value, and an identity whose title is non-empty is never
\* rejected for metadata by process_mp3_file (line 215).
C5_FailsOnlyOnEmptyTitle ==
    (MetaReturned /\ call.file_path.readable) =>
        /\ Truthy(ret.value[1])
        /\ Truthy(ret.value[2]) => ~MetadataRejected(ret.value)

\* C6: for a file mutagen can open that has none of the TPE1, TPE2 and TIT2
\* frames: when the stem contains ' - ', the artist is the part before its
\* first occurrence and the title is everything after it, both stripped of
\* blanks; when it does not, the title is the whole stem and the artist is
\* "Unknown".
C6_FilenameFallback ==
    (MetaReturned /\ call.file_path.readable /\ call.file_path.tags = NoTags) =>
        LET stem == call.file_path.stem
            artist == ret.value[1]
            title == ret.value[2]
        IN  /\ \A k \in 1..Len(stem) :
                 FirstSepAt(stem, k) =>
                    /\ ~artist.isNone /\ IsTrimOf(artist.s, SubSeq(stem, 1, k - 1))
                    /\ ~title.isNone /\ IsTrimOf(title.s, SubSeq(stem, k + 3, Len(stem)))
            /\ (\A k \in 1..Len(stem) : ~IsSepAt(stem, k)) =>
                    (artist = Str(Unknown) /\ title = Str(stem))

\* A stem with two occurrences of ' - ' was split at the first one: the dash
\* of the second occurrence is in the title.
C6_Witness ==
    /\ MetaReturned /\ call.file_path.readable /\ call.file_path.tags = NoTags
    /\ call.file_path.stem = <<" ", "-", " ", "-", " ">>
    /\ FirstSepAt(call.file_path.stem, 1) /\ IsSepAt(call.file_path.stem, 3)
    /\ ret.value = <<Str(<<>>), Str(<<"-">>)>>

(***************************************************************************)
(* get_lrc_from_result called on every kind of result                      *)
(***************************************************************************)
\* No result, a candidate, or a value that is not an object.
Results == {JNull, JObj(Absent, Absent, FALSE), JStr(<<"a">>), JNum(5)} \cup Candidates

InitLrc ==
    /\ MainIdle /\ WorldInit
    /\ \E r \in Results, d \in BOOLEAN :
          call = [fn |-> "get_lrc_from_result", result |-> r, debug |-> d]
    /\ step = "called"
    /\ ret = NoRet

CallGetLrcFromResult ==
    /\ call.fn = "get_lrc_from_result" /\ step = "called"
    /\ ret' = [kind |-> "lyrics", value |-> get_lrc_from_result(call.result, call.debug)]
    /\ step' = "returned"
    /\ UNCHANGED <<call, mainVars, worldVars>>

NextLrc == CallGetLrcFromResult
SpecLrc == InitLrc /\ [][NextLrc]_vars

LrcReturned == call.fn = "get_lrc_from_result" /\ step = "returned"
IsText(v) == v.kind = "string" /\ v.s # <<>>
FieldIsText(r, key) ==
    /\ r.kind = "object"
    /\ (IF key = "syncedLyrics" THEN r.syncedLyrics ELSE r.plainLyrics).kind = "string"
    /\ (IF key = "syncedLyrics" THEN r.syncedLyrics ELSE r.plainLyrics).s # <<>>

\* C7: get_lrc_from_result returns syncedLyrics when that is a non-empty
\* string, whatever plainLyrics holds; otherwise plainLyrics when that is a
\* non-empty string; otherwise None.  It never returns an empty text.
C7_PayloadSelection ==
    LrcReturned =>
        /\ FieldIsText(call.result, "syncedLyrics") =>
              ret.value = call.result.syncedLyrics
        /\ (~FieldIsText(call.result, "syncedLyrics") /\ FieldIsText(call.result, "plainLyrics")) =>
              ret.value = call.result.plainLyrics
        /\ (~FieldIsText(call.result, "syncedLyrics") /\ ~FieldIsText(call.result, "plainLyrics")) =>
              ret.value = JNull
        /\ ret.value = JNull \/ IsText(ret.value)

\* A candidate with both texts, different from each other: synced was returned.
C7_Witness ==
    /\ LrcReturned
    /\ call.result = JObj(JStr(SYNCED), JStr(PLAIN), TRUE)
    /\ ret.value = JStr(SYNCED)

(***************************************************************************)
(* search_lrclib called against every kind of answer                       *)
(***************************************************************************)
\* Elements of the answered array: candidates, and values that are no objects.
SampleCandidates ==
    {JObj(JStr(SYNCED), JStr(PLAIN), TRUE), JObj(Absent, JStr(PLAIN), TRUE),
     JObj(JNull, JNull, TRUE)}
ArrayItems == SampleCandidates \cup {JNum(5), JNull}
Arrays == {JArr(a) : a \in UNION {[1..n -> ArrayItems] : n \in 0..MaxResults}}
Bodies ==
    {Malformed, JNull, JNum(0), JNum(5), JStr(<<>>), JStr(<<"a", "b">>),
     JObj(Absent, Absent, FALSE), JObj(Absent, Absent, TRUE)} \cup Arrays
Statuses == {HTTP_OK, 404}
Response(status, body) == [error |-> FALSE, status |-> status, body |-> body]
NetworkError == [error |-> TRUE, status |-> 0, body |-> Malformed]
Responses == {NetworkError} \cup {Response(st, b) : st \in Statuses, b \in Bodies}

ARTIST == <<"a">>
TITLE == <<"t">>

InitSearch ==
    /\ MainIdleButRemote
    /\ remote \in Responses
    /\ WorldInit
    /\ \E d \in BOOLEAN :
          call = [fn |-> "search_lrclib", artist |-> ARTIST, title |-> TITLE, debug |-> d]
    /\ step = "called"
    /\ ret = NoRet

\* Lines 100-114: build the request, then time.sleep(0.5).
SearchSleep ==
    /\ call.fn = "search_lrclib" /\ step = "called"
    /\ clock' = clock + DELAY
    /\ step' = "slept"
    /\ UNCHANGED <<call, ret, requests, writes, mainVars>>

\* Line 116: session.get.  A network error raises, and lines 139-144 return None.
SearchGet ==
    /\ call.fn = "search_lrclib" /\ step = "slept"
    /\ requests' = Append(requests, [at |-> clock, artist |-> call.artist, title |-> call.title])
    /\ IF remote.error
       THEN step' = "returned" /\ ret' = [kind |-> "result", value |-> JNull]
       ELSE step' = "responded" /\ ret' = ret
    /\ UNCHANGED <<call, clock, writes, mainVars>>

\* Lines 118-138: status check, response.json(), first result.
SearchHandle ==
    /\ call.fn = "search_lrclib" /\ step = "responded"
    /\ ret' = [kind |-> "result", value |-> HandleResponse(remote, call.debug)]
    /\ step' = "returned"
    /\ UNCHANGED <<call, worldVars, mainVars>>

NextSearch == SearchSleep \/ SearchGet \/ SearchHandle
SpecSearch == InitSearch /\ [][NextSearch]_vars

SearchReturned == call.fn = "search_lrclib" /\ step = "returned"

\* C8: search_lrclib returns the first element of the array when the answer
\* is a 200 with a non-empty JSON array, and None for every other answer
\* (non-200, empty array, malformed or non-array body, network error).
C8_FirstOfArrayOrNone ==
    SearchReturned =>
        IF ~remote.error /\ remote.status = HTTP_OK
           /\ remote.body.kind = "array" /\ remote.body.items # <<>>
        THEN ret.value = remote.body.items[1]
        ELSE ret.value = JNull

(***************************************************************************)
(* The batch run: process_mp3_file (lines 202-245) and main (248-295)      *)
(***************************************************************************)
\* The files a music folder is made of.
T_TAGGED == Track(TRUE, [TPE1 |-> Str(<<"t">>), TPE2 |-> None, TIT2 |-> Str(<<"t">>)], <<"a">>)
T_NAMED == Track(TRUE, NoTags, <<"a", " ", "-", " ", "a">>)
T_NO_ARTIST == Track(TRUE, NoTags, <<" ", "-", " ", "a">>)
T_UNREADABLE == Track(FALSE, NoTags, <<"a", "a">>)
COVER_JPG == [mp3 |-> FALSE, readable |-> FALSE, tags |-> NoTags, stem |-> <<"-">>]
Library == {T_TAGGED, T_NAMED, T_NO_ARTIST, T_UNREADABLE, COVER_JPG}

OLD == <<"o", "l", "d">>        \* content of a lyric file that is already there

Injective(f) == \A a, b \in DOMAIN f : f[a] = f[b] => a = b
Folders == {f \in UNION {[1..n -> Library] : n \in 0..MaxFiles} : Injective(f)}
LrcFiles(f) ==
    {l \in [1..Len(f) -> {NoFile, File(OLD)}] : \A k \in 1..Len(f) : ~f[k].mp3 => l[k] = NoFile}

\* What the remote service is stubbed to answer during a batch run.
MainResponses ==
    {NetworkError,
     Response(404, Malformed),
     Response(HTTP_OK, JArr(<<>>)),
     Response(HTTP_OK, JArr(<<JObj(JNull, JNull, TRUE)>>)),
     Response(HTTP_OK, JArr(<<JObj(JStr(SYNCED), JStr(PLAIN), TRUE)>>))}

\* find_mp3_files (lines 192-199): the files whose name ends in .mp3, in the
\* order os.walk meets them.  A file is named by its index in the folder.
RECURSIVE find_mp3_files_from(_, _)
find_mp3_files_from(f, k) ==
    IF k > Len(f) THEN <<>>
    ELSE (IF f[k].mp3 THEN <<k>> ELSE <<>>) \o find_mp3_files_from(f, k + 1)
find_mp3_files(f) == find_mp3_files_from(f, 1)

\* process_mp3_file(mp3_path, skip_existing, debug), given the sibling lyric
\* file as it is when the call starts.
\*   lines 207-209: skipped, returns False;
\*   lines 214-217: metadata rejected, returns False;
\*   line 224: get_lyrics_link is called, a name that is defined nowhere in
\*     the module (nor is get_lrc_content of line 233): Python raises
\*     NameError, which nothing in process_mp3_file catches.  Lines 225-245
\*     are therefore never executed.
process_mp3_file(f, lrc_file, skip, dbg) ==
    IF skip /\ lrc_file.exists
    THEN [raised |-> FALSE, value |-> FALSE, stage |-> "Skipped"]
    ELSE IF MetadataRejected(get_mp3_metadata(f))
    THEN [raised |-> FALSE, value |-> FALSE, stage |-> "MetadataFailed"]
    ELSE [raised |-> TRUE, value |-> FALSE, stage |-> "NameError"]

\* The mutations of the tally: the mode is not looked at; a failure is not counted.
Tally_any_mode(result, lrc_exists, skip) ==
    IF result THEN "success" ELSE IF lrc_exists THEN "skipped" ELSE "failed"
Tally_no_else(result, lrc_exists, skip) ==
    IF result THEN "success" ELSE IF lrc_exists /\ skip THEN "skipped" ELSE "none"

\* Lines 283-288: which counter the file goes to, given what process_mp3_file
\* returned and whether the sibling lyric file exists now.
Tally(result, lrc_exists, skip) ==
    IF result THEN "success" ELSE IF lrc_exists /\ skip THEN "skipped" ELSE "failed"

Init ==
    /\ pc = "start"
    /\ skip_existing \in BOOLEAN        \* '--force' not in sys.argv
    /\ debug \in BOOLEAN                \* '--debug' in sys.argv
    /\ folder \in Folders
    /\ lrc \in LrcFiles(folder)
    /\ lrc0 = lrc
    /\ remote \in MainResponses
    /\ mp3_files = <<>> /\ i = 0
    /\ success_count = 0 /\ skip_count = 0 /\ fail_count = 0
    /\ printed = NoSummary /\ log = <<>> /\ run = 1
    /\ first_run = NoFirstRun
    /\ WorldInit
    /\ call = NoCall /\ step = "none" /\ ret = NoRet

\* Lines 267-278: scan the folder; exit 0 when it holds no mp3 file,
\* otherwise zero the counters and enter the loop.
Scan ==
    /\ pc = "start"
    /\ mp3_files' = find_mp3_files(folder)
    /\ IF mp3_files' = <<>>
       THEN pc' = "exited" /\ i' = i
       ELSE pc' = "loop" /\ i' = 1
    /\ success_count' = 0 /\ skip_count' = 0 /\ fail_count' = 0
    /\ UNCHANGED <<skip_existing, debug, folder, lrc, lrc0, remote, printed, log,
                   run, first_run, callVars, worldVars>>

\* One iteration of the loop of lines 280-288 in which process_mp3_file returns.
LoopReturn ==
    /\ pc = "loop" /\ i <= Len(mp3_files)
    /\ LET f == mp3_files[i]
           r == process_mp3_file(folder[f], lrc[f], skip_existing, debug)
           t == Tally(r.value, lrc[f].exists, skip_existing)
       IN  /\ ~r.raised
           /\ success_count' = success_count + (IF t = "success" THEN 1 ELSE 0)
           /\ skip_count' = skip_count + (IF t = "skipped" THEN 1 ELSE 0)
           /\ fail_count' = fail_count + (IF t = "failed" THEN 1 ELSE 0)
           /\ log' = Append(log, [file |-> f, existed |-> lrc[f].exists,
                                  processed |-> r.stage # "Skipped",
                                  stage |-> r.stage, counted |-> t])
    /\ i' = i + 1
    /\ UNCHANGED <<pc, skip_existing, debug, folder, lrc, lrc0, remote, mp3_files,
                   printed, run, first_run, callVars, worldVars>>

\* One iteration in which process_mp3_file raises: main has no handler, the
\* exception ends the process with a traceback.
LoopRaise ==
    /\ pc = "loop" /\ i <= Len(mp3_files)
    /\ process_mp3_file(folder[mp3_files[i]], lrc[mp3_files[i]], skip_existing, debug).raised
    /\ pc' = "aborted"
    /\ UNCHANGED <<skip_existing, debug, folder, lrc, lrc0, remote, mp3_files, i,
                   success_count, skip_count, fail_count, printed, log,
                   run, first_run, callVars, worldVars>>

\* Lines 290-295: the loop is over, print the counts.
Summary ==
    /\ pc = "loop" /\ i > Len(mp3_files)
    /\ printed' = [printed |-> TRUE, success |-> success_count, skipped |-> skip_count,
                   failed |-> fail_count, total |-> Len(mp3_files)]
    /\ pc' = "done"
    /\ UNCHANGED <<skip_existing, debug, folder, lrc, lrc0, remote, mp3_files, i,
                   success_count, skip_count, fail_count, log,
                   run, first_run, callVars, worldVars>>

\* The process is over (summary printed, exit 0, or traceback).
Over == pc \in {"done", "exited", "aborted"}

\* The user runs the script again: same folder, same flags, the lyric files
\* as the previous run left them.
Rerun ==
    /\ Over /\ run < MaxRuns
    /\ run' = run + 1
    /\ first_run' = IF run = 1 THEN [over |-> TRUE, log |-> log, lrc0 |-> lrc0, lrc |-> lrc, pc |-> pc]
                    ELSE first_run
    /\ pc' = "start"
    /\ lrc0' = lrc
    /\ mp3_files' = <<>> /\ i' = 0
    /\ success_count' = 0 /\ skip_count' = 0 /\ fail_count' = 0
    /\ printed' = NoSummary /\ log' = <<>>
    /\ UNCHANGED <<skip_existing, debug, folder, lrc, remote, callVars, worldVars>>

Next == Scan \/ LoopReturn \/ LoopRaise \/ Summary \/ Rerun
Spec == Init /\ [][Next]_vars

(***************************************************************************)
(* save_lrc_file (lines 180-189) called on its own                         *)
(***************************************************************************)
\* The proper prefixes of a text: what a write that fails may leave behind.
ProperPrefixes(t) == {SubSeq(t, 1, n) : n \in 0..(Len(t) - 1)}

InitSave ==
    /\ pc = "idle" /\ skip_existing = TRUE /\ debug = FALSE
    /\ folder = <<T_TAGGED>>
    /\ lrc \in LrcFiles(folder)
    /\ lrc0 = lrc
    /\ remote = NoRemote
    /\ mp3_files = <<>> /\ i = 0
    /\ success_count = 0 /\ skip_count = 0 /\ fail_count = 0
    /\ printed = NoSummary /\ log = <<>> /\ run = 0
    /\ first_run = NoFirstRun
    /\ WorldInit
    /\ \E t \in LyricTexts : call = [fn |-> "save_lrc_file", mp3_path |-> 1, lrc_content |-> t]
    /\ step = "called"
    /\ ret = NoRet

\* save_lrc_file(mp3_path, lrc_content).  open(lrc_path, 'w') either raises
\* and leaves the file as it was, or truncates it; f.write and the close at
\* the end of the with block either put all of lrc_content there or raise
\* with part of it written.  Every exception returns False (lines 187-189).
SaveLrcFile ==
    /\ call.fn = "save_lrc_file" /\ step = "called"
    /\ writes' = writes + 1
    /\ \/ /\ lrc' = [lrc EXCEPT ![call.mp3_path] = File(call.lrc_content)]
          /\ ret' = [kind |-> "saved", value |-> TRUE]
       \/ /\ lrc' = lrc
          /\ ret' = [kind |-> "saved", value |-> FALSE]
       \/ /\ \E part \in ProperPrefixes(call.lrc_content) :
                lrc' = [lrc EXCEPT ![call.mp3_path] = File(part)]
          /\ ret' = [kind |-> "saved", value |-> FALSE]
    /\ step' = "returned"
    /\ UNCHANGED <<pc, skip_existing, debug, folder, lrc0, remote, mp3_files, i,
                   success_count, skip_count, fail_count, printed, log, run, first_run,
                   call, clock, requests>>

NextSave == SaveLrcFile
SpecSave == InitSave /\ [][NextSave]_vars

\* save_lrc_file overwrites: when it returns True the file holds exactly
\* lrc_content, whatever it held before.
SaveOverwrites ==
    (call.fn = "save_lrc_file" /\ step = "returned" /\ ret.value) =>
        lrc[call.mp3_path] = File(call.lrc_content)

(***************************************************************************)
(* The batch run, or search_lrclib or save_lrc_file called on its own      *)
(***************************************************************************)
InitModule == Init \/ InitSearch \/ InitSave
NextModule == Next \/ NextSearch \/ NextSave
SpecModule == InitModule /\ [][NextModule]_vars

(***************************************************************************)
(* Claims about the batch run, checked under Spec (C10: SpecModule)        *)
(***************************************************************************)
\* The identity of the track is accepted by line 215.
Usable(f) == ~MetadataRejected(get_mp3_metadata(f))

\* The remote service answers 200 with an array of exactly one candidate
\* whose syncedLyrics is a non-empty string.
OneSyncedCandidate ==
    /\ ~remote.error /\ remote.status = HTTP_OK
    /\ remote.body.kind = "array" /\ Len(remote.body.items) = 1
    /\ FieldIsText(remote.body.items[1], "syncedLyrics")

\* The folder holds one track, its identity resolves, and it had no sibling
\* lyric file when the run whose initial lyric files are l0 began.
OneFreshTrack(l0) ==
    /\ Len(folder) = 1 /\ folder[1].mp3 /\ Usable(folder[1])
    /\ ~l0[1].exists

SummaryOf(ok, skipped, failed, total) ==
    [printed |-> TRUE, success |-> ok, skipped |-> skipped, failed |-> failed, total |-> total]

\* C1: a run over a folder with one track whose identity resolves, without a
\* sibling lyric file, against a remote service answering one candidate with
\* syncedLyrics S, ends with the sibling lyric file holding exactly S and
\* the summary 1 success, 0 skipped, 0 failed.
C1_EndToEndSuccess ==
    (run = 1 /\ Over /\ OneFreshTrack(lrc0) /\ OneSyncedCandidate) =>
        /\ lrc[1] = File(remote.body.items[1].syncedLyrics.s)
        /\ printed = SummaryOf(1, 0, 0, 1)

\* C2: once the loop has been entered the run never ends without every
\* discovered file handled and the final counts printed.
C2_BatchCompletes ==
    (pc \in {"done", "aborted"}) =>
        /\ Len(log) = Len(mp3_files)
        /\ printed.printed /\ printed.total = Len(mp3_files)

\* The files the run got to: those tallied, and the one it was aborted in.
Handled ==
    {log[k].file : k \in 1..Len(log)}
        \cup (IF pc = "aborted" THEN {mp3_files[i]} ELSE {})

\* C3: after two runs in skip-mode, every track the first run counted as
\* success has its lyric file as the first run left it and is counted as
\* skipped, unprocessed, by the second run; in particular the one-track
\* scenario of C1, run again, reports 0 success, 1 skipped, 0 failed with
\* the lyric file unchanged.
C3_SkipModeIdempotent ==
    (run = 2 /\ Over /\ skip_existing) =>
        /\ \A k \in 1..Len(first_run.log) :
              first_run.log[k].counted = "success" =>
                 /\ lrc[first_run.log[k].file] = first_run.lrc[first_run.log[k].file]
                 /\ \E j \in 1..Len(log) :
                       /\ log[j].file = first_run.log[k].file
                       /\ log[j].counted = "skipped" /\ ~log[j].processed
        /\ (OneFreshTrack(first_run.lrc0) /\ OneSyncedCandidate) =>
                 /\ printed = SummaryOf(0, 1, 0, 1)
                 /\ lrc[1].exists /\ lrc[1] = first_run.lrc[1]

\* The lyric text the remote answer carries: what get_lrc_from_result makes
\* of what search_lrclib returns.
RemotePayload == get_lrc_from_result(HandleResponse(remote, debug), debug)

\* C4: with --force no track is skipped, and a track that had a sibling
\* lyric file, whose identity resolves and for which the remote answer
\* carries a lyric text P, ends with the sibling file holding exactly P.
C4_ForceOverwrites ==
    (run = 1 /\ Over /\ ~skip_existing) =>
        /\ \A k \in 1..Len(log) : log[k].processed /\ log[k].counted # "skipped"
        /\ \A f \in Handled :
              (lrc0[f].exists /\ Usable(folder[f]) /\ ~remote.error /\ IsText(RemotePayload)) =>
                 lrc[f] = File(RemotePayload.s)

Counted(c) == Cardinality({k \in 1..Len(log) : log[k].counted = c})

====
